---------------------------- MODULE Spec2Model ----------------------------
(***************************************************************************)
(* A model of the sleep-scoring feature pipeline (src/utils.py and         *)
(* src/sleep_features_v2.py):                                              *)
(*   - the montage builder  (channel_sort_list, define_pairs,              *)
(*     bipolar_montage),                      specification SpecMontage;   *)
(*   - the rate converter   (change_sampling_rate), specification SpecRate;*)
(*   - the epoch loop of the script with the feature extractor's index     *)
(*     bookkeeping (compute_features),        specification Spec;          *)
(*   - the feature post-processing loop,      specification SpecPost.      *)
(* Channel names are sequences of one-character strings.  Floating-point   *)
(* samples are not modelled; lengths, indices, provenance of the feature   *)
(* entries and (in SpecPost) exact rational column values are.             *)
(***************************************************************************)
EXTENDS Integers, Sequences, FiniteSets, TLC

VARIABLES
    \* montage builder
    m_pc, m_channels, m_pairs, m_names, m_bi,
    \* rate converter
    r_pc, r_len, r_fs, r_out, r_nfilt, r_rate,
    \* epoch loop
    pc, Ne, fs, Nch, ii, ne, feature, night, acq_failed, error,
    \* post-processor
    p_pc, p_feature, p_night, p_nf, p_error, p_featfeat

mvars == <<m_pc, m_channels, m_pairs, m_names, m_bi>>
rvars == <<r_pc, r_len, r_fs, r_out, r_nfilt, r_rate>>
evars == <<pc, Ne, fs, Nch, ii, ne, feature, night, acq_failed, error>>
pvars == <<p_pc, p_feature, p_night, p_nf, p_error, p_featfeat>>
vars == <<mvars, rvars, evars, pvars>>

\* A component that a specification does not exercise stays in its idle state.
NoMontage == [raised |-> "none", cols |-> <<>>]
MIdle == m_pc = "idle" /\ m_channels = <<>> /\ m_pairs = <<>> /\ m_names = <<>>
         /\ m_bi = NoMontage
NoBlock == [block |-> FALSE, len |-> 0]
RIdle == r_pc = "idle" /\ r_len = 0 /\ r_fs = 0 /\ r_out = NoBlock /\ r_nfilt = 0
         /\ r_rate = <<0, 1>>
NoTensor == [alloc |-> 0, cells |-> <<>>]
EIdle == pc = "idle" /\ Ne = 0 /\ fs = 0 /\ Nch = 0 /\ ii = 0 /\ ne = 0
         /\ feature = NoTensor /\ night = 0
         /\ acq_failed = {} /\ error = "none"
PIdle == p_pc = "idle" /\ p_feature = <<>> /\ p_night = <<>> /\ p_nf = 0
         /\ p_error = "none" /\ p_featfeat = <<>>

Min(a, b) == IF a <= b THEN a ELSE b
Max(a, b) == IF a >= b THEN a ELSE b

(***************************************************************************)
(*                            MONTAGE BUILDER                              *)
(***************************************************************************)

\* str.isdigit / str.isnumeric on the ASCII characters used in channel names
DigitChars == <<"0", "1", "2", "3", "4", "5", "6", "7", "8", "9">>
isdigit(c) == \E k \in 1..10 : DigitChars[k] = c
isnumeric(c) == isdigit(c)
isalpha(c) == c \in {"A", "B", "E", "F", "R"}
\* the characters kept in a lead label: x.isalpha() or x == "'"
IsBaseChar(c) == isalpha(c) \/ c = "'"
\* int() of one decimal digit
DigitVal(c) == (CHOOSE k \in 1..10 : DigitChars[k] = c) - 1

\* Code point of a character: the order Python compares strings by
Ord(c) ==
    CASE c = "'" -> 39
      [] isdigit(c) -> 48 + DigitVal(c)
      [] c = "A" -> 65
      [] c = "B" -> 66
      [] c = "E" -> 69
      [] c = "F" -> 70
      [] c = "R" -> 82
      [] c = "_" -> 95
      [] OTHER -> 0

\* Python's str < str: lexicographic by code point, a proper prefix is smaller
RECURSIVE StrLess(_, _)
StrLess(a, b) ==
    IF b = <<>> THEN FALSE
    ELSE IF a = <<>> THEN TRUE
    ELSE IF Ord(Head(a)) < Ord(Head(b)) THEN TRUE
    ELSE IF Ord(Head(a)) > Ord(Head(b)) THEN FALSE
    ELSE StrLess(Tail(a), Tail(b))

\* channel.index(c): position (1-based here) of the first occurrence of c
IndexOf(channel, c) ==
    CHOOSE p \in 1..Len(channel) :
        channel[p] = c /\ \A q \in 1..(p - 1) : channel[q] # c

\* utils.py 16-22: a name with exactly one digit gets a "0" before that digit
PadChannel(channel) ==
    LET digits == SelectSeq(channel, isdigit)
    IN  IF Len(digits) = 1
        THEN LET dig_idx == IndexOf(channel, digits[1])
             IN  SubSeq(channel, 1, dig_idx - 1) \o <<"0">>
                 \o SubSeq(channel, dig_idx, Len(channel))
        ELSE channel

\* utils.py 24: list.sort() of strings
RECURSIVE InsertSorted(_, _)
InsertSorted(x, s) ==
    IF s = <<>> THEN <<x>>
    ELSE IF StrLess(x, Head(s)) THEN <<x>> \o s
    ELSE <<Head(s)>> \o InsertSorted(x, Tail(s))

RECURSIVE SortStrings(_)
SortStrings(s) ==
    IF s = <<>> THEN <<>>
    ELSE InsertSorted(s[Len(s)], SortStrings(SubSeq(s, 1, Len(s) - 1)))

\* utils.py 26-32: a name whose first digit is "0" loses that character
StripChannel(channel) ==
    LET digits == SelectSeq(channel, isdigit)
    IN  IF Len(digits) = 0 THEN channel
        ELSE IF digits[1] = "0"
        THEN LET dig_idx == IndexOf(channel, digits[1])
             IN  SubSeq(channel, 1, dig_idx - 1)
                 \o SubSeq(channel, dig_idx + 1, Len(channel))
        ELSE channel

\* utils.py 5-34
StripAll(sorted) == [i \in 1..Len(sorted) |-> StripChannel(sorted[i])]
channel_sort_list(channels) ==
    StripAll(SortStrings([i \in 1..Len(channels) |-> PadChannel(channels[i])]))

\* int(''.join(numeric characters)) of a non-empty digit sequence
RECURSIVE IntOf(_)
IntOf(ds) ==
    IF ds = <<>> THEN 0
    ELSE 10 * IntOf(SubSeq(ds, 1, Len(ds) - 1)) + DigitVal(ds[Len(ds)])

\* str(n) for n >= 0
RECURSIVE StrOfInt(_)
StrOfInt(n) ==
    IF n < 10 THEN <<DigitChars[n + 1]>>
    ELSE StrOfInt(n \div 10) \o <<DigitChars[(n % 10) + 1]>>

HasNumeric(channel) == SelectSeq(channel, isnumeric) # <<>>

\* utils.py 47-49: the lead label of every sorted name
channel_bases_of(sorted) ==
    [i \in 1..Len(sorted) |-> SelectSeq(sorted[i], IsBaseChar)]

\* utils.py 53-58: the positions (0-based, as in the code) without a number
not_use_num_of(sorted) ==
    {i \in 0..(Len(sorted) - 1) : ~HasNumeric(sorted[i + 1])}

\* utils.py 61-62: the positions that stay
ch_numbers_of(sorted, not_use_num) ==
    SelectSeq([k \in 1..Len(sorted) |-> k - 1], LAMBDA x : x \notin not_use_num)

\* utils.py 53-56: a number is appended only for a name that has one
channel_nums_of(sorted, ch_numbers) ==
    [k \in 1..Len(ch_numbers) |->
        IntOf(SelectSeq(sorted[ch_numbers[k] + 1], isnumeric))]

\* utils.py 63-64: [list[k] for k in ch_numbers] (the whole list when no
\* position was dropped)
KeepAt(list, ch_numbers) ==
    [k \in 1..Len(ch_numbers) |-> list[ch_numbers[k] + 1]]

\* utils.py 69-72: the positions i (1-based here) whose successor is paired
PairStarts(channels, channel_bases, channel_nums) ==
    SelectSeq([i \in 1..(Len(channels) - 1) |-> i],
              LAMBDA i : /\ channel_bases[i + 1] = channel_bases[i]
                         /\ channel_nums[i + 1] = channel_nums[i] + 1)

\* utils.py 73-74
BuildPairs(channels, channel_nums, starts) ==
    [pairs |-> [k \in 1..Len(starts) |->
                   <<channels[starts[k]], channels[starts[k] + 1]>>],
     names |-> [k \in 1..Len(starts) |->
                   channels[starts[k]] \o <<"_">>
                   \o StrOfInt(channel_nums[starts[k] + 1])]]

\* utils.py 66-77
ScanPairs(channels, channel_bases, channel_nums) ==
    BuildPairs(channels, channel_nums,
               PairStarts(channels, channel_bases, channel_nums))

\* utils.py 47-64
FilterAndScan(sorted, ch_numbers) ==
    ScanPairs(KeepAt(sorted, ch_numbers),
              KeepAt(channel_bases_of(sorted), ch_numbers),
              channel_nums_of(sorted, ch_numbers))

PairsFromSorted(sorted) ==
    FilterAndScan(sorted, ch_numbers_of(sorted, not_use_num_of(sorted)))

\* utils.py 37-77: the pairs and their names, in scan order
define_pairs(channels) == PairsFromSorted(channel_sort_list(channels))

\* utils.py 92: dict(zip(channels, arange)): a repeated name keeps its last column
HasKey(channels, name) == \E i \in 1..Len(channels) : channels[i] = name
ch_dict(channels, name) ==
    (CHOOSE i \in 1..Len(channels) :
        channels[i] = name /\ \A k \in (i + 1)..Len(channels) : channels[k] # name) - 1

\* utils.py 95-98: the data columns each pair subtracts, or KeyError
MontageOf(channels, pairs) ==
    IF \E k \in 1..Len(pairs) :
          ~HasKey(channels, pairs[k][1]) \/ ~HasKey(channels, pairs[k][2])
    THEN [raised |-> "KeyError", cols |-> <<>>]
    ELSE [raised |-> "none",
          cols |-> [k \in 1..Len(pairs) |->
              <<ch_dict(channels, pairs[k][1]), ch_dict(channels, pairs[k][2])>>]]

\* utils.py 80-100
bipolar_montage(channels) == MontageOf(channels, define_pairs(channels).pairs)

\* Unipolar names the inputs are drawn from
A1 == <<"A", "1">>
A2 == <<"A", "2">>
A3 == <<"A", "3">>
B1 == <<"B", "1">>
A9 == <<"A", "9">>
A10 == <<"A", "1", "0">>
A99 == <<"A", "9", "9">>
A100 == <<"A", "1", "0", "0">>
A01 == <<"A", "0", "1">>
A02 == <<"A", "0", "2">>
Ap1 == <<"A", "'", "1">>
REF == <<"R", "E", "F">>
NamePool == {A1, A2, A3, B1, A9, A10, A99, A100, A01, A02, Ap1, REF}

MaxChannels == 4

\* the lists of at most n names of S
ListsUpTo(S, n) == UNION {[1..k -> S] : k \in 0..n}

MInit ==
    /\ m_pc = "start"
    /\ m_channels \in ListsUpTo(NamePool, MaxChannels)
    /\ m_pairs = <<>>
    /\ m_names = <<>>
    /\ m_bi = NoMontage
    /\ RIdle /\ EIdle /\ PIdle

\* a call of define_pairs(channels)
DefinePairs ==
    /\ m_pc = "start"
    /\ m_pc' = "paired"
    /\ \E res \in {define_pairs(m_channels)} :
           m_pairs' = res.pairs /\ m_names' = res.names
    /\ UNCHANGED <<m_channels, m_bi, rvars, evars, pvars>>

\* a call of bipolar_montage(data, channels)
BipolarMontage ==
    /\ m_pc = "start"
    /\ \E res \in {define_pairs(m_channels)} :
           /\ m_pairs' = res.pairs
           /\ m_names' = res.names
           /\ \E bi \in {MontageOf(m_channels, res.pairs)} :
                  /\ m_bi' = bi
                  /\ m_pc' = IF bi.raised = "KeyError" THEN "raised" ELSE "montage"
    /\ UNCHANGED <<m_channels, rvars, evars, pvars>>

MNext == DefinePairs \/ BipolarMontage

SpecMontage == MInit /\ [][MNext]_vars

\* ---- claims about the montage builder ----
LeadLabel(name) == SelectSeq(name, IsBaseChar)
ContactIndex(name) == IntOf(SelectSeq(name, isnumeric))
SortedFiltered(channels) == SelectSeq(channel_sort_list(channels), HasNumeric)
PairSet(pairs) == {pairs[k] : k \in 1..Len(pairs)}
AbsDiff(a, b) == IF a >= b THEN a - b ELSE b - a
CountIn(s, x) == Cardinality({i \in 1..Len(s) : s[i] = x})
IsPermutation(s, t) ==
    /\ Len(s) = Len(t)
    /\ \A i \in 1..Len(s) : CountIn(s, s[i]) = CountIn(t, s[i])
PairsComputed == m_pc \in {"paired", "montage", "raised"}

\* C1 (as claimed): two consecutive entries of the sorted, suffix-filtered list
\* are paired if and only if they share the lead label and their contact
\* indices differ by exactly 1; every pair is such a consecutive couple and
\* references only names that carry a number.
C1_PairIffAdjacentContacts ==
    PairsComputed =>
        LET filt == SortedFiltered(m_channels)
        IN  /\ \A i \in 1..(Len(filt) - 1) :
                   (<<filt[i], filt[i + 1]>> \in PairSet(m_pairs))
                   <=> (/\ LeadLabel(filt[i]) = LeadLabel(filt[i + 1])
                        /\ AbsDiff(ContactIndex(filt[i]), ContactIndex(filt[i + 1])) = 1)
            /\ \A p \in PairSet(m_pairs) :
                   /\ HasNumeric(p[1]) /\ HasNumeric(p[2])
                   /\ \E i \in 1..(Len(filt) - 1) : p = <<filt[i], filt[i + 1]>>

\* The part of C1 the code does satisfy: a consecutive couple is paired exactly
\* when the labels agree and the second index is the first plus one.
C1_PairIffSuccessor ==
    PairsComputed =>
        LET filt == SortedFiltered(m_channels)
        IN  /\ \A i \in 1..(Len(filt) - 1) :
                   (<<filt[i], filt[i + 1]>> \in PairSet(m_pairs))
                   <=> (/\ LeadLabel(filt[i]) = LeadLabel(filt[i + 1])
                        /\ ContactIndex(filt[i + 1]) = ContactIndex(filt[i]) + 1)
            /\ \A p \in PairSet(m_pairs) :
                   /\ HasNumeric(p[1]) /\ HasNumeric(p[2])
                   /\ \E i \in 1..(Len(filt) - 1) : p = <<filt[i], filt[i + 1]>>

\* The example of the specification: [A1, A2, A3, B1] gives (A1,A2), (A2,A3).
C1_Example ==
    (PairsComputed /\ m_channels = <<A1, A2, A3, B1>>)
        => m_pairs = <<<<A1, A2>>, <<A2, A3>>>>

\* C10 (as claimed): channel_sort_list returns a permutation of its input, so
\* bipolar_montage resolves every contact of every pair to a data column.
C10_SortIsPermutationAndPairsResolve ==
    /\ PairsComputed => IsPermutation(channel_sort_list(m_channels), m_channels)
    /\ m_pc # "raised"
    /\ m_pc = "montage" =>
           \A k \in 1..Len(m_pairs) :
               /\ HasKey(m_channels, m_pairs[k][1])
               /\ HasKey(m_channels, m_pairs[k][2])

\* The round trip does hold for names whose first digit is not a zero of
\* their own.
NoLeadingZero(name) ==
    LET digits == SelectSeq(name, isdigit)
    IN  Len(digits) >= 2 => digits[1] # "0"
C10_PermutationWithoutLeadingZeros ==
    (PairsComputed /\ \A i \in 1..Len(m_channels) : NoLeadingZero(m_channels[i]))
        => /\ IsPermutation(channel_sort_list(m_channels), m_channels)
           /\ m_pc # "raised"

(***************************************************************************)
(*                             RATE CONVERTER                              *)
(* A block is followed through the cascade by its length, the number of    *)
(* lfilter calls made on it and its sampling rate as a fraction <<n, d>>.  *)
(***************************************************************************)

\* utils.py 138: the order of the half-band filter hd5 (55 taps)
od5 == 54
\* the rate the docstring of change_sampling_rate promises
CanonicalRate == 256

\* utils.py 157-158 (and each later repetition): append od5 // 2 zeros, lfilter,
\* drop the first od5 // 2 samples, keep every fifth sample
FilterDecimate(b) ==
    LET padded == b.len + od5 \div 2
        filtered == padded
        kept == Max(filtered - od5 \div 2, 0)
    IN  [len |-> (kept + 4) \div 5,
         nfilt |-> b.nfilt + 1,
         rate |-> <<b.rate[1], b.rate[2] * 5>>]

\* utils.py 160-161 (and each later repetition): the block stacked with three
\* zero blocks and reshaped in column order: three zeros after every sample.
\* The gain (4, or 2 at line 176) scales amplitudes only.
ZeroInsert(b, gain) ==
    [len |-> 4 * b.len,
     nfilt |-> b.nfilt,
     rate |-> <<b.rate[1] * 4, b.rate[2]>>]

\* utils.py 155-168
Cascade2000(b) ==
    FilterDecimate(ZeroInsert(
        FilterDecimate(ZeroInsert(
            FilterDecimate(b), 4)), 4))

\* utils.py 170-189
Cascade5000(b) ==
    FilterDecimate(ZeroInsert(
        FilterDecimate(ZeroInsert(
            FilterDecimate(ZeroInsert(
                FilterDecimate(b), 2)), 4)), 4))

\* a variant with a generic fall-back for the other rates
change_sampling_rate_fallback(n, rate) ==
    LET b == [len |-> n, nfilt |-> 0, rate |-> <<rate, 1>>]
    IN  IF rate = 5000
        THEN [raised |-> "none"] @@ Cascade5000(b)
        ELSE [raised |-> "none"] @@ Cascade2000(b)

\* utils.py 129-194: the block returned for a block of n samples at `rate`
change_sampling_rate(n, rate) ==
    LET b == [len |-> n, nfilt |-> 0, rate |-> <<rate, 1>>]
    IN  IF rate = 2000 THEN [raised |-> "none"] @@ Cascade2000(b)
        ELSE IF rate = 5000 THEN [raised |-> "none"] @@ Cascade5000(b)
        ELSE [raised |-> "ValueError", len |-> 0, nfilt |-> 0, rate |-> <<rate, 1>>]

\* sleep_features_v2.py 16-17 and utils.py 115-119: one read covers the window
\* and the overlap on both sides, (30 + 2 * 1.25) s = 65/2 s
EpochBlockLen(rate) == (65 * rate) \div 2

MaxBlockLen == 40
SourceRates == {256, 1000, 2000, 5000}

RInit ==
    /\ r_pc = "start"
    /\ r_fs \in SourceRates
    /\ r_len \in (0..MaxBlockLen) \cup {EpochBlockLen(r_fs)}
    /\ r_out = NoBlock
    /\ r_nfilt = 0
    /\ r_rate = <<r_fs, 1>>
    /\ MIdle /\ EIdle /\ PIdle

\* a call of change_sampling_rate(x, fs)
ChangeSamplingRate ==
    /\ r_pc = "start"
    /\ LET res == change_sampling_rate(r_len, r_fs)
       IN  /\ r_pc' = IF res.raised = "none" THEN "returned" ELSE "raised"
           /\ r_out' = IF res.raised = "none"
                       THEN [block |-> TRUE, len |-> res.len] ELSE NoBlock
           /\ r_nfilt' = res.nfilt
           /\ r_rate' = res.rate
    /\ UNCHANGED <<r_len, r_fs, mvars, evars, pvars>>

RNext == ChangeSamplingRate

SpecRate == RInit /\ [][RNext]_vars

\* ---- claims about the rate converter ----

\* C2 (as claimed): for both supported rates and every block length the
\* compounded rate of the cascade is 256 samples/second and the returned
\* block is the input length scaled by 256 / rate, exact to the integer
\* rounding of the decimation stages (at most one sample per stage).
C2_OutputAtCanonicalRate ==
    r_pc = "returned" =>
        /\ r_rate[1] = CanonicalRate * r_rate[2]
        /\ AbsDiff(r_out.len * r_fs, r_len * CanonicalRate) < r_nfilt * r_fs

\* What the code does achieve: the claim at 2000 samples/second, where a whole
\* epoch of 65000 samples becomes 8320 samples.
C2_HoldsAt2000 ==
    (r_pc = "returned" /\ r_fs = 2000)
        => /\ r_rate[1] = CanonicalRate * r_rate[2]
           /\ AbsDiff(r_out.len * r_fs, r_len * CanonicalRate) < r_nfilt * r_fs
           /\ (r_len = EpochBlockLen(2000) => r_out.len = 8320)

\* At 5000 samples/second the cascade ends at 512 samples/second: a whole
\* epoch of 162500 samples becomes 16640 samples.
C2_At5000Gives512 ==
    (r_pc = "returned" /\ r_fs = 5000)
        => /\ r_rate[1] = 512 * r_rate[2]
           /\ (r_len = EpochBlockLen(5000) => r_out.len = 16640)

\* C6: a rate outside {2000, 5000} ends the call with an error: no filter
\* has run and no block is returned.
C6_UnsupportedRateRaises ==
    (r_pc # "start" /\ r_fs \notin {2000, 5000})
        => /\ r_pc = "raised"
           /\ r_nfilt = 0
           /\ r_out = NoBlock
           /\ r_rate = <<r_fs, 1>>
C6_Witness == r_pc = "raised" /\ r_fs = 1000 /\ r_len = EpochBlockLen(1000)

(***************************************************************************)
(*                FEATURE EXTRACTOR: INDEX BOOKKEEPING                     *)
(* The value of a feature is not computed; each entry of a vector records  *)
(* which quantity it is: the regression scalar c1..c3 (kind "c", scale =   *)
(* order of the cumulant) or one of the three summaries of the scale with  *)
(* loop index jj (kinds "logmean", "sumsq", "logstd", scale = jj), and the *)
(* channel and epoch it was computed for.                                  *)
(***************************************************************************)

\* utils.py 205
j == 8

Entry(kind, scale, ch, ep) == [kind |-> kind, scale |-> scale, ch |-> ch, ep |-> ep]
\* an entry of np.zeros that nothing was written to
ZeroEntry == Entry("zero", 0, 0, 0)

\* utils.py 217, 229-231: mwc[jj], mwc[jj + j], mwc[jj + 2 * j] after the loop,
\* as a sequence (entry idx of the array is element idx + 1)
mwc(ch, ep) ==
    [k \in 1..(3 * j) |->
        IF k - 1 < j THEN Entry("logmean", k - 1, ch, ep)
        ELSE IF k - 1 < 2 * j THEN Entry("sumsq", k - 1 - j, ch, ep)
        ELSE Entry("logstd", k - 1 - 2 * j, ch, ep)]

\* utils.py 251-259: the three regression slopes
cumulants(ch, ep) == [k \in 1..3 |-> Entry("c", k, ch, ep)]

\* utils.py 260: np.concatenate([f, mwc.flatten()])
concatenated(ch, ep) == cumulants(ch, ep) \o mwc(ch, ep)

\* a variant that excludes only two of the three summaries
ExcludedTwice == {4, 4 + j}

\* utils.py 261: the indices (0-based) handed to np.delete
Excluded == {4, 4 + j, 4 + 2 * j}

\* np.delete(f, idx): the entries at the other indices, in order
KeptIndices(f, idx) ==
    SelectSeq([k \in 1..Len(f) |-> k - 1], LAMBDA x : x \notin idx)
TakeAt(f, kept) == [k \in 1..Len(kept) |-> f[kept[k] + 1]]
np_delete(f, idx) == TakeAt(f, KeptIndices(f, idx))

\* utils.py 197-263
compute_features(ch, ep) == np_delete(concatenated(ch, ep), Excluded)

(***************************************************************************)
(*                       EPOCH LOOP OF THE SCRIPT                          *)
(* feature is np.zeros((nfeat, Nch, 1500)) kept sparsely: alloc is the     *)
(* length of the epoch axis, cells maps the epoch slots that were assigned *)
(* to their vectors (one per channel); every other slot is all zero.       *)
(* night is all True throughout (nf <= nnf is 1 <= 1), so only the length  *)
(* of its epoch axis is kept.                                              *)
(***************************************************************************)

\* sleep_features_v2.py 49
nfeat == 24
\* sleep_features_v2.py 53-54, 68: the length of the epoch axis
MaxEpochs == 1500
\* sleep_features_v2.py 72-73: signal[63:], signal[:8192]
SkipSamples == 63
WindowSamples == 8192

ZeroVector == [k \in 1..nfeat |-> ZeroEntry]
\* the vectors of slot e: what was assigned, else zeros
Slot(tensor, e) ==
    IF e \in DOMAIN tensor.cells THEN tensor.cells[e]
    ELSE [ch \in 0..(Nch - 1) |-> ZeroVector]
AssignSlot(tensor, e, vecs) ==
    [alloc |-> tensor.alloc,
     cells |-> [x \in (DOMAIN tensor.cells) \cup {e} |->
                   IF x = e THEN vecs ELSE tensor.cells[x]]]
\* feature[:, :, 0:n]
TruncateTensor(tensor, n) ==
    [alloc |-> Min(n, tensor.alloc),
     cells |-> [x \in {y \in DOMAIN tensor.cells : y < n} |-> tensor.cells[x]]]

MaxNe == 4
MaxNch == 2
EpochRates == {1000, 2000, 5000}

\* sleep_features_v2.py 16-56: the state before the loop
EInit ==
    /\ pc = "loop"
    /\ Ne \in 0..MaxNe
    /\ Ne <= MaxEpochs
    /\ fs \in EpochRates
    /\ Nch \in 1..MaxNch
    /\ ii = 0
    /\ ne = 0
    /\ feature = NoTensor
    /\ night = MaxEpochs
    /\ acq_failed = {}
    /\ error = "none"
    /\ MIdle /\ RIdle /\ PIdle

Abort(err) ==
    /\ pc' = "aborted"
    /\ error' = err
    /\ UNCHANGED <<Ne, fs, Nch, ii, ne, feature, night, acq_failed>>

\* sleep_features_v2.py 67-68, 76-82: the tensor after one pass of the loop
\* body that got its signal
StoreEpoch(allocated, vecs) ==
    IF \E ch \in DOMAIN vecs : Len(vecs[ch]) # nfeat
    THEN Abort("ValueError: shape mismatch")
    ELSE IF Nch > 0 /\ ne >= allocated.alloc
    THEN Abort("IndexError")
    ELSE /\ feature' = AssignSlot(allocated, ne, vecs)
         /\ ne' = ne + 1
         /\ ii' = ii + 1
         /\ UNCHANGED <<pc, Ne, fs, Nch, night, acq_failed, error>>

\* sleep_features_v2.py 70-74: the rows left of the resampled block
TrimmedRows(block) == Min(Max(block.len - SkipSamples, 0), WindowSamples)

\* sleep_features_v2.py 59-84: one pass of the loop body whose read succeeds
Epoch ==
    /\ pc = "loop"
    /\ ii < Ne
    /\ \E block \in {change_sampling_rate(EpochBlockLen(fs), fs)} :
          IF block.raised # "none"
          THEN Abort("ValueError: unsupported rate")
          ELSE IF TrimmedRows(block) # WindowSamples
          THEN Abort("ValueError: operands could not be broadcast")
          ELSE StoreEpoch(IF ii = 0 THEN [alloc |-> MaxEpochs, cells |-> <<>>]
                                    ELSE feature,
                          [ch \in 0..(Nch - 1) |-> compute_features(ch, ii)])
    /\ UNCHANGED <<mvars, rvars, pvars>>

\* a variant in which a failed read only skips its epoch
AcquisitionFailureSkipsEpoch ==
    /\ pc = "loop"
    /\ ii < Ne
    /\ acq_failed' = acq_failed \cup {ii}
    /\ ii' = ii + 1
    /\ UNCHANGED <<pc, Ne, fs, Nch, ne, feature, night, error, mvars, rvars, pvars>>

\* sleep_features_v2.py 59-64, utils.py 121: read_ts_channels_uutc raises; no
\* handler surrounds the call, the loop or the script
AcquisitionFailure ==
    /\ pc = "loop"
    /\ ii < Ne
    /\ pc' = "aborted"
    /\ error' = "AcquisitionError"
    /\ acq_failed' = acq_failed \cup {ii}
    /\ UNCHANGED <<Ne, fs, Nch, ii, ne, feature, night, mvars, rvars, pvars>>

\* sleep_features_v2.py 86-94: after the loop
Truncate ==
    /\ pc = "loop"
    /\ ii = Ne
    /\ IF feature.alloc = 0
       THEN /\ pc' = "aborted"
            /\ error' = "NameError"
            /\ ne' = ne + 1
            /\ UNCHANGED <<feature, night>>
       ELSE /\ pc' = "post"
            /\ ne' = ne + 1
            /\ feature' = TruncateTensor(feature, ne + 1)
            /\ night' = Min(ne + 1, night)
            /\ UNCHANGED error
    /\ UNCHANGED <<Ne, fs, Nch, ii, acq_failed, mvars, rvars, pvars>>

Next == Epoch \/ AcquisitionFailure \/ Truncate

Init == EInit

Spec == Init /\ [][Next]_vars

\* ---- claims about the extractor and the epoch loop ----

\* the vectors the loop has assigned so far
AssignedVectors ==
    {feature.cells[e][ch] : e \in DOMAIN feature.cells, ch \in 0..(Nch - 1)}
Summaries == {"logmean", "sumsq", "logstd"}

\* C3 (as claimed): every vector compute_features returns, for every channel
\* and epoch stored in the tensor, has exactly 21 entries.
C3_VectorLengthIs21 ==
    \A v \in AssignedVectors : Len(v) = 21

\* C3 (amended): every vector compute_features returns has exactly 24 entries
\* (27 concatenated, 3 deleted), which is the feature axis the tensor is
\* allocated with, for every channel and every epoch: no assignment into the
\* tensor fails on its shape, and the vectors handed on have 24 entries.
C3_VectorLengthIs24 ==
    /\ error # "ValueError: shape mismatch"
    /\ \A v \in AssignedVectors : Len(v) = 24
    /\ pc = "post" =>
           \A e \in 0..(feature.alloc - 1) : \A ch \in 0..(Nch - 1) :
               Len(Slot(feature, e)[ch]) = 24
C3_Witness ==
    /\ pc = "post"
    /\ Nch = 2
    /\ Ne >= 2
    /\ DOMAIN feature.cells = 0..(Ne - 1)

\* C4 (as claimed): what is handed to post-processing has an epoch axis of
\* exactly Ne slots (tensor and night mask), at most 1500, and every slot
\* holds the vectors the extractor wrote for that epoch.
C4_TruncatedToEpochsProduced ==
    pc = "post" =>
        /\ feature.alloc = Ne
        /\ night = Ne
        /\ feature.alloc <= MaxEpochs
        /\ \A e \in 0..(feature.alloc - 1) :
               /\ e \in DOMAIN feature.cells
               /\ \A ch \in 0..(Nch - 1) : \A k \in 1..nfeat :
                      feature.cells[e][ch][k].kind # "zero"
                      /\ feature.cells[e][ch][k].ep = e

\* What the code hands on: Ne + 1 slots, the last one never written.
C4_OneSlotTooMany ==
    pc = "post" =>
        /\ feature.alloc = Ne + 1
        /\ night = Ne + 1
        /\ DOMAIN feature.cells = 0..(Ne - 1)
        /\ \A ch \in 0..(Nch - 1) : Slot(feature, Ne)[ch] = ZeroVector

\* C7 (as claimed): a failed read of epoch n aborts only that epoch: the run
\* goes on (the loop continues or ends normally) and the vectors of the epochs
\* completed before stay in the tensor.
C7_FailureAbortsOnlyTheEpoch ==
    acq_failed # {} =>
        /\ pc \in {"loop", "post"}
        /\ \A e \in 0..(ne - 1) : e \in DOMAIN feature.cells

\* C7 (amended): a failed read of epoch n is not caught and ends the whole
\* run at epoch n: no later epoch is read, the loop counters stay at n, the
\* tensor is never truncated or handed to post-processing, and no step
\* follows; the vectors of the epochs 0..n-1 completed before are in the
\* tensor as they were written.
C7_FailureAbortsTheRun ==
    acq_failed # {} =>
        /\ pc = "aborted"
        /\ error = "AcquisitionError"
        /\ acq_failed = {ii}
        /\ ne = ii
        /\ ~ENABLED Next
        /\ (ii > 0 => feature.alloc = MaxEpochs)
        /\ DOMAIN feature.cells = 0..(ii - 1)
        /\ \A e \in 0..(ii - 1) : \A ch \in 0..(Nch - 1) :
               feature.cells[e][ch] = compute_features(ch, e)
C7_Witness ==
    /\ acq_failed = {2}
    /\ Ne > 3
    /\ Nch > 0
    /\ DOMAIN feature.cells = {0, 1}

\* the 27 concatenated entries without the summaries of one scale
WithoutScale(f, scale) ==
    SelectSeq(f, LAMBDA x : ~(x.kind \in Summaries /\ x.scale = scale))

\* C8 (as claimed): from [c1, c2, c3, 8 log-means, 8 sums of squares, 8
\* log-stds] exactly the three summaries of the 64-128 Hz scale, loop index 0,
\* are removed; c1..c3 and all other entries stay, in their order.
C8_RemovesScaleZero ==
    \A e \in DOMAIN feature.cells : \A ch \in 0..(Nch - 1) :
        feature.cells[e][ch] = WithoutScale(concatenated(ch, e), 0)

\* What the code removes: the three summaries of loop index 1 (32-64 Hz at
\* 256 samples/second); c1..c3 and the order of the rest are kept.
C8_RemovesScaleOne ==
    \A e \in DOMAIN feature.cells : \A ch \in 0..(Nch - 1) :
        feature.cells[e][ch] = WithoutScale(concatenated(ch, e), 1)

(***************************************************************************)
(*                         FEATURE POST-PROCESSOR                          *)
(* The columns of one channel, feature[nch, :, nf], each a sequence over   *)
(* the epoch axis.  A value is a record [t, n, d]:                         *)
(*   t = "q"   the rational n / d (d > 0);                                 *)
(*   t = "z"   the z-score n / sqrt(d) (d > 0);                            *)
(*   t = "nan" NaN;   t = "inf" an infinity.                               *)
(* Arithmetic is exact, where the code's is IEEE double.                   *)
(***************************************************************************)

NaN == [t |-> "nan", n |-> 0, d |-> 1]
Inf == [t |-> "inf", n |-> 1, d |-> 1]
Q(n, d) == [t |-> "q", n |-> n, d |-> d]
Z(n, d) == [t |-> "z", n |-> n, d |-> d]
isnan(v) == v.t = "nan"
isfinite(v) == v.t \in {"q", "z"}

\* f[~in_nan]: the values that are not NaN, in order
NotNaN(v) == ~isnan(v)
Compress(col) == SelectSeq(col, NotNaN)
\* how many values that are not NaN stand at positions 1..k
Rank(col, k) == Cardinality({i \in 1..k : ~isnan(col[i])})
\* f[~in_nan] = vals
Scatter(col, vals) ==
    [k \in 1..Len(col) |-> IF isnan(col[k]) THEN col[k] ELSE vals[Rank(col, k)]]
Nums(vals) == [k \in 1..Len(vals) |-> vals[k].n]

RECURSIVE SumRange(_, _, _)
SumRange(x, lo, hi) == IF lo > hi THEN 0 ELSE x[lo] + SumRange(x, lo + 1, hi)
SumAll(x) == SumRange(x, 1, Len(x))
Squares(x) == [k \in 1..Len(x) |-> x[k] * x[k]]

\* np.convolve(x, np.ones(klen), mode='same'): max(len(x), klen) values, the
\* middle of the full convolution, which starts n - n // 2 - 1 values in,
\* n the shorter of the two lengths
ConvStart(n, klen) == Min(n, klen) - (Min(n, klen) \div 2) - 1
ConvSameOnes(x, klen) ==
    [k \in 1..Max(Len(x), klen) |->
        SumRange(x, Max(1, k + ConvStart(Len(x), klen) - klen + 1),
                    Min(Len(x), k + ConvStart(Len(x), klen)))]

\* Python's round(num / den): halves go to the even neighbour
RoundHalfEven(num, den) ==
    IF 2 * (num % den) < den THEN num \div den
    ELSE IF 2 * (num % den) > den THEN num \div den + 1
    ELSE IF (num \div den) % 2 = 0 THEN num \div den
    ELSE num \div den + 1

\* np.sort(x)[k], k 0-based
SortedAt(x, k) ==
    CHOOSE v \in {x[i] : i \in 1..Len(x)} :
        /\ Cardinality({i \in 1..Len(x) : x[i] < v}) <= k
        /\ Cardinality({i \in 1..Len(x) : x[i] <= v}) > k

\* sleep_features_v2.py 112, 126, 138: the widths of the moving averages
DetrendWidth == 10
SmoothWidth == 3
ScoreWidth == 10

\* sleep_features_v2.py 112: f_nan_removed - convolve(f_nan_removed, ones(10)) / 10,
\* times 10
Detrended(x) ==
    [k \in 1..Len(x) |-> DetrendWidth * x[k] - ConvSameOnes(x, DetrendWidth)[k]]

\* sleep_features_v2.py 117: outside [m0 - 2.5 (m1 - m0), m1 + 2.5 (m1 - m0)]
OutOfFence(v, m0, m1) ==
    \/ 2 * v < 2 * m0 - 5 * (m1 - m0)
    \/ 2 * v > 2 * m1 + 5 * (m1 - m0)

\* sleep_features_v2.py 114-119: the column with its outliers set to NaN
RejectWith(col, det, m0, m1) ==
    [k \in 1..Len(col) |->
        IF isnan(col[k]) THEN col[k]
        ELSE IF OutOfFence(det[Rank(col, k)], m0, m1) THEN NaN
        ELSE col[k]]
Reject(col, det) ==
    RejectWith(col, det,
               SortedAt(det, RoundHalfEven(Len(det), 4)),
               SortedAt(det, RoundHalfEven(3 * Len(det), 4)))

Raised(err, col) == [raised |-> err, col |-> col]
Returned(col) == [raised |-> "none", col |-> col]

\* sleep_features_v2.py 108-119, with x = f_nan_removed
OutlierStageOf(col, x) ==
    IF Len(x) = 0
    THEN Raised("ValueError: convolve: a cannot be empty", col)
    ELSE IF Len(x) < DetrendWidth /\ Len(x) # 1
    THEN Raised("ValueError: operands could not be broadcast", col)
    ELSE IF Len(x) = 1
    THEN Raised("ValueError: cannot assign 10 input values to 1 output value", col)
    ELSE IF RoundHalfEven(3 * Len(x), 4) >= Len(x)
    THEN Raised("IndexError", col)
    ELSE Returned(Reject(col, Detrended(x)))
OutlierStage(col) == OutlierStageOf(col, Nums(Compress(col)))

\* a variant of the smoothing that also fills the missing slots
SmoothedAcrossGaps(col, vals) ==
    [k \in 1..Len(col) |->
        Q(ConvSameOnes(Nums(vals), SmoothWidth)[Max(1, Rank(col, k))],
          SmoothWidth * vals[1].d)]

\* sleep_features_v2.py 126-127: f[~in_nan] = convolve(ff, ones(3), 'same') / 3
Smoothed(col, vals) ==
    Scatter(col, [k \in 1..Len(vals) |->
                     Q(ConvSameOnes(Nums(vals), SmoothWidth)[k],
                       SmoothWidth * vals[k].d)])

\* sleep_features_v2.py 121-127, with vals = ff
SmoothStageOf(col, vals) ==
    IF Len(vals) = 0
    THEN Raised("ValueError: convolve: a cannot be empty", col)
    ELSE IF Len(vals) < SmoothWidth
    THEN Raised("ValueError: cannot assign 3 input values", col)
    ELSE Returned(Smoothed(col, vals))
SmoothStage(col) == SmoothStageOf(col, Compress(col))

\* np.any(f): NaN counts as true
np_any(col) == \E k \in 1..Len(col) : col[k].t # "q" \/ col[k].n # 0

\* sleep_features_v2.py 132: (f - nanmean(f[night])) / nanstd(f[night]) for a
\* value n / d, from the count cnt, the sum and the sum of squares of the
\* numerators of the night values that are not NaN:
\*   (cnt n - sum) / sqrt(cnt sumsq - sum^2)
ZScore(v, cnt, sum, sumsq) ==
    IF isnan(v) \/ cnt = 0 THEN NaN
    ELSE IF cnt * sumsq - sum * sum = 0
    THEN (IF cnt * v.n - sum = 0 THEN NaN ELSE Inf)
    ELSE Z(cnt * v.n - sum, cnt * sumsq - sum * sum)

NormalizedWith(col, x) ==
    [k \in 1..Len(col) |-> ZScore(col[k], Len(x), SumAll(x), SumAll(Squares(x)))]

\* f[night[:, 0]]
NightValues(col, mask) ==
    SelectSeq([k \in 1..Len(col) |-> IF mask[k] THEN col[k] ELSE NaN], NotNaN)

\* sleep_features_v2.py 129-135
NormalizeStage(col, mask) ==
    IF np_any(col) THEN NormalizedWith(col, Nums(NightValues(col, mask)))
    ELSE col

\* sleep_features_v2.py 136-142, with x the numerators of f[~in_nan]: the
\* square of norm(fm) / norm(f), or "default" when featfeat is not assigned
ScoreOf(x) ==
    IF Len(x) = 0
    THEN [raised |-> "ValueError: convolve: a cannot be empty", score |-> <<0, 1>>]
    ELSE IF SumAll(Squares(x)) = 0
    THEN [raised |-> "none", score |-> <<0, 1>>]
    ELSE [raised |-> "none",
          score |-> <<SumAll(Squares(ConvSameOnes(x, ScoreWidth))),
                      ScoreWidth * ScoreWidth * SumAll(Squares(x))>>]
ScoreStage(col) == ScoreOf(Nums(Compress(col)))

\* the number of epochs the loop produced and of (channel, feature) columns
MaxPostNe == 10
PostCols == 2
Patterns == {"saw", "flat"}
OutlierValue == 1000

\* the value the extractor produced for column c in epoch e (0-based)
PatternValue(pat, c, e) == IF pat = "saw" THEN (e % 3) + c ELSE 0

\* sleep_features_v2.py 68, 77, 88-93: the tensor handed to post-processing has
\* one slot more than the loop produced, still all zero; in the epochs of
\* `bad` feature 0 came out infinite (the log of a zero mean); `cell` is one
\* (column, epoch) with an extreme value, or <<-1, -1>> for none
RawColumn(c, epochs, pat, bad, cell) ==
    [k \in 1..(epochs + 1) |->
        IF k - 1 = epochs THEN Q(0, 1)
        ELSE IF (k - 1) \in bad /\ c = 0 THEN Inf
        ELSE IF cell = <<c, k - 1>> THEN Q(OutlierValue, 1)
        ELSE Q(PatternValue(pat, c, k - 1), 1)]

PInit ==
    /\ p_pc = "mark"
    /\ \E epochs \in (MaxPostNe - 1)..MaxPostNe :
       \E pat \in Patterns :
       \E lo \in 0..epochs : \E hi \in (lo - 1)..(epochs - 1) :
       \E cell \in {<<-1, -1>>} \cup ((0..(PostCols - 1)) \X (0..(epochs - 1))) :
           /\ (hi = lo - 1 => lo = 0)
           /\ p_feature = [c \in 0..(PostCols - 1) |->
                              RawColumn(c, epochs, pat, lo..hi, cell)]
           /\ p_night = [k \in 1..(epochs + 1) |-> TRUE]
    /\ p_nf = 0
    /\ p_error = "none"
    /\ p_featfeat = [c \in 0..(PostCols - 1) |-> <<0, 1>>]
    /\ MIdle /\ RIdle /\ EIdle

\* sleep_features_v2.py 99-102: an epoch with a NaN or an infinity in any
\* feature of the channel becomes NaN in all of them
MarkNonFinite ==
    /\ p_pc = "mark"
    /\ p_feature' =
           [c \in DOMAIN p_feature |->
               [k \in 1..Len(p_feature[c]) |->
                   IF \E c2 \in DOMAIN p_feature : ~isfinite(p_feature[c2][k])
                   THEN NaN ELSE p_feature[c][k]]]
    /\ p_pc' = "outlier"
    /\ UNCHANGED <<p_night, p_nf, p_error, p_featfeat, mvars, rvars, evars>>

PostRaise(err) ==
    /\ p_pc' = "raised"
    /\ p_error' = err
    /\ UNCHANGED <<p_feature, p_night, p_nf, p_featfeat>>

PostStore(col, next_pc) ==
    /\ p_feature' = [p_feature EXCEPT ![p_nf] = col]
    /\ p_pc' = next_pc
    /\ UNCHANGED <<p_night, p_nf, p_error, p_featfeat>>

\* sleep_features_v2.py 108-119
OutlierRejection ==
    /\ p_pc = "outlier"
    /\ \E res \in {OutlierStage(p_feature[p_nf])} :
           IF res.raised # "none" THEN PostRaise(res.raised)
           ELSE PostStore(res.col, "smooth")
    /\ UNCHANGED <<mvars, rvars, evars>>

\* sleep_features_v2.py 121-127
Smoothing ==
    /\ p_pc = "smooth"
    /\ \E res \in {SmoothStage(p_feature[p_nf])} :
           IF res.raised # "none" THEN PostRaise(res.raised)
           ELSE PostStore(res.col, "normalize")
    /\ UNCHANGED <<mvars, rvars, evars>>

\* sleep_features_v2.py 129-135
Normalizing ==
    /\ p_pc = "normalize"
    /\ PostStore(NormalizeStage(p_feature[p_nf], p_night), "score")
    /\ UNCHANGED <<mvars, rvars, evars>>

\* sleep_features_v2.py 136-142 and the step to the next column (106-107)
Scoring ==
    /\ p_pc = "score"
    /\ \E res \in {ScoreStage(p_feature[p_nf])} :
           IF res.raised # "none" THEN PostRaise(res.raised)
           ELSE /\ p_featfeat' = [p_featfeat EXCEPT ![p_nf] = res.score]
                /\ p_nf' = IF p_nf + 1 < PostCols THEN p_nf + 1 ELSE p_nf
                /\ p_pc' = IF p_nf + 1 < PostCols THEN "outlier" ELSE "done"
                /\ UNCHANGED <<p_feature, p_night, p_error>>
    /\ UNCHANGED <<mvars, rvars, evars>>

PNext == MarkNonFinite \/ OutlierRejection \/ Smoothing \/ Normalizing \/ Scoring

SpecPost == PInit /\ [][PNext]_vars

\* ---- claims about the post-processor ----

\* C5 (as claimed): whatever number of epochs of a column is missing, outlier
\* rejection, smoothing, normalization and scoring complete without raising.
C5_PostProcessingNeverRaises == p_pc # "raised"

\* What the code does: it raises only on a column with fewer than 10 values
\* left (in outlier rejection, or in scoring when normalization left none),
\* and smoothing always finds at least 3 values.
C5_RaisesBelowTenValues ==
    /\ p_pc = "raised" =>
           Len(Compress(p_feature[p_nf])) < DetrendWidth
    /\ p_pc \in {"smooth", "normalize"} =>
           Len(Compress(p_feature[p_nf])) >= SmoothWidth

\* the nearest values that are not NaN before and after position k, 0 if none
PrevValue(col, k) ==
    IF \E i \in 1..(k - 1) : ~isnan(col[i])
    THEN col[CHOOSE i \in 1..(k - 1) :
                ~isnan(col[i]) /\ \A m \in (i + 1)..(k - 1) : isnan(col[m])].n
    ELSE 0
NextValue(col, k) ==
    IF \E i \in (k + 1)..Len(col) : ~isnan(col[i])
    THEN col[CHOOSE i \in (k + 1)..Len(col) :
                ~isnan(col[i]) /\ \A m \in (k + 1)..(i - 1) : isnan(col[m])].n
    ELSE 0

\* C9: in every step of the post-processing a slot that is NaN keeps its NaN
\* (so a slot missing after outlier rejection is missing in the smoothed and
\* in the normalized column); smoothing and normalization leave every other
\* column as it is; smoothing replaces a value by the mean of itself and the
\* nearest values that are not NaN on either side, so a missing slot enters
\* no average.
C9_MissingnessOnlyGrows ==
    [][ /\ DOMAIN p_feature' = DOMAIN p_feature
        /\ \A c \in DOMAIN p_feature :
               /\ Len(p_feature'[c]) = Len(p_feature[c])
               /\ \A k \in 1..Len(p_feature[c]) :
                      isnan(p_feature[c][k]) => p_feature'[c][k] = p_feature[c][k]
        /\ p_pc \in {"smooth", "normalize"} =>
               \A c \in DOMAIN p_feature : c # p_nf => p_feature'[c] = p_feature[c]
        /\ (p_pc = "smooth" /\ p_pc' = "normalize") =>
               \A k \in 1..Len(p_feature[p_nf]) :
                   ~isnan(p_feature[p_nf][k]) =>
                       p_feature'[p_nf][k] =
                           Q(PrevValue(p_feature[p_nf], k) + p_feature[p_nf][k].n
                               + NextValue(p_feature[p_nf], k),
                             SmoothWidth * p_feature[p_nf][k].d)
      ]_vars
\* a normalized column with a slot that outlier rejection made missing (it is
\* not missing in the other column), a slot missing in every column, and
\* z-scores in the other slots
C9_Witness ==
    /\ p_pc = "score"
    /\ p_nf = 0
    /\ \E k \in 1..Len(p_feature[0]) :
           isnan(p_feature[0][k]) /\ ~isnan(p_feature[1][k])
    /\ \E k \in 1..Len(p_feature[0]) :
           isnan(p_feature[0][k]) /\ isnan(p_feature[1][k])
    /\ \E k \in 1..Len(p_feature[0]) : p_feature[0][k].t = "z"

=============================================================================
